---- MODULE Spec2Model ----
(***************************************************************************)
(* Gentoo network helper (commands/gentoo/network.py).                     *)
(*                                                                         *)
(* Two parts are modelled:                                                 *)
(*   - the two render dialects _confd_net_file / _confd_net_file_legacy,   *)
(*     as operators producing the list `lines` the code joins with "\n"    *)
(*     (every line is the sequence of the literal and substituted pieces   *)
(*     of its format string), exercised by SpecRender;                     *)
(*   - configure_network, as a step machine over its side effects          *)
(*     (update_files, sethostname, ip flush, symlink, init script          *)
(*     restart), exercised by Spec.                                        *)
(***************************************************************************)
EXTENDS Integers, Sequences, FiniteSets, TLC

VARIABLES
    interfaces,   \* argument: interface name -> descriptor
    order,        \* iteration order of interfaces.iteritems()
    rcExists,     \* os.path.isfile('/sbin/rc')
    ipCmd,        \* commands.utils.is_system_command("ip")
    fs,           \* /etc/init.d/net.<name>: "absent", "file" or "symlink"
    pc,           \* position in the modelled function
    version,      \* dialect selected for the render
    rendered,     \* (data, ifaces) of the render, or the exception it raised
    update_files, \* local dict: path -> content
    written,      \* files commands.network.update_files has written: path -> content
    hostnameSet,  \* commands.network.sethostname succeeded
    remaining,    \* members of ifaces the for loop has not yet visited
    ifname,       \* loop variable
    status,       \* local `status`: <<>> while unbound, else <<value>>
    result,       \* outcome of configure_network
    trace         \* side effects performed so far, in order

vars == <<interfaces, order, rcExists, ipCmd, fs, pc, version, rendered,
          update_files, written, hostnameSet, remaining, ifname, status, result, trace>>

(***************************************************************************)
(* Bounds and input values                                                 *)
(***************************************************************************)
MaxIfaces == 2

IfNames == <<"eth0", "eth1", "eth2">>

Names == {IfNames[i] : i \in 1..(IF MaxIfaces < Len(IfNames) THEN MaxIfaces ELSE Len(IfNames))}

\* Python's None, as a value of an interface field
None == "<None>"

\* Python truthiness of a string-or-None field
Truthy(v) == v # None /\ v # ""

HOSTNAME_FILE == "/etc/conf.d/hostname"
NETWORK_FILE == "/etc/conf.d/net"

\* sys.argv[0] as formatted into the header
Argv0 == "nova-agent"

\* readings of datetime.now(), in the order the clock passes them: the date and time
\* to the second as str() spells it, and the microsecond
Clock ==
    << [second |-> "2011-06-01 12:00:00", microsecond |-> 0],
       [second |-> "2011-06-01 12:00:01", microsecond |-> 250 ] >>

\* "{time}".format(time=datetime.now()): the fraction is printed, as six digits,
\* only when the microsecond is not zero
FormatTime(t) ==
    IF t.microsecond = 0 THEN t.second
    ELSE t.second \o "."
         \o ToString((t.microsecond \div 100000) % 10)
         \o ToString((t.microsecond \div 10000) % 10)
         \o ToString((t.microsecond \div 1000) % 10)
         \o ToString((t.microsecond \div 100) % 10)
         \o ToString((t.microsecond \div 10) % 10)
         \o ToString(t.microsecond % 10)

\* commands.network.NETMASK_TO_PREFIXLEN
NETMASK_TO_PREFIXLEN ==
    "255.255.255.255" :> 32 @@ "255.255.255.254" :> 31 @@ "255.255.255.252" :> 30 @@
    "255.255.255.248" :> 29 @@ "255.255.255.240" :> 28 @@ "255.255.255.224" :> 27 @@
    "255.255.255.192" :> 26 @@ "255.255.255.128" :> 25 @@ "255.255.255.0" :> 24 @@
    "255.255.254.0" :> 23 @@ "255.255.252.0" :> 22 @@ "255.255.248.0" :> 21 @@
    "255.255.240.0" :> 20 @@ "255.255.224.0" :> 19 @@ "255.255.192.0" :> 18 @@
    "255.255.128.0" :> 17 @@ "255.255.0.0" :> 16 @@ "255.254.0.0" :> 15 @@
    "255.252.0.0" :> 14 @@ "255.248.0.0" :> 13 @@ "255.240.0.0" :> 12 @@
    "255.224.0.0" :> 11 @@ "255.192.0.0" :> 10 @@ "255.128.0.0" :> 9 @@
    "255.0.0.0" :> 8 @@ "254.0.0.0" :> 7 @@ "252.0.0.0" :> 6 @@
    "248.0.0.0" :> 5 @@ "240.0.0.0" :> 4 @@ "224.0.0.0" :> 3 @@
    "192.0.0.0" :> 2 @@ "128.0.0.0" :> 1 @@ "0.0.0.0" :> 0

(***************************************************************************)
(* Sequence helpers                                                        *)
(***************************************************************************)
RECURSIVE Flatten(_)
Flatten(ss) == IF ss = <<>> THEN <<>> ELSE Head(ss) \o Flatten(Tail(ss))

RECURSIVE JoinPieces(_, _)
\* the pieces of sep.join(items)
JoinPieces(items, sep) ==
    IF items = <<>> THEN <<>>
    ELSE IF Len(items) = 1 THEN <<items[1]>>
    ELSE <<items[1], sep>> \o JoinPieces(Tail(items), sep)

RECURSIVE Concat(_)
\* the string a sequence of pieces spells
Concat(pieces) == IF pieces = <<>> THEN "" ELSE Head(pieces) \o Concat(Tail(pieces))

\* "\n".join(lines)
JoinLines(lines) == Concat(JoinPieces([i \in 1..Len(lines) |-> Concat(lines[i])], "\n"))

Perms(S) == {p \in [1..Cardinality(S) -> S] : \A i, j \in 1..Cardinality(S) : p[i] = p[j] => i = j}

(***************************************************************************)
(* Text generation                                                         *)
(***************************************************************************)
\* _header(), called when the clock reads t
Header(t) ==
    <<"# Creator: NOVA AGENT:\n        # This file was autogenerated at ", FormatTime(t), " by ", Argv0,
      ".\n        # While it can still be managed manually, definitely not recommended.\n        ">>

\* the lines both dialects start with
Preamble(ip, t) ==
    << Header(t), <<"">>,
       IF ip THEN <<"modules=\"iproute2\"">> ELSE <<"modules=\"ifconfig\"">>,
       <<"">>, <<"">> >>

\* the `if` of the route list comprehension of _confd_net_file
RouteListed(interface, route) ==
    /\ ~(route.network = "0.0.0.0")
    /\ ~(route.netmask = "0.0.0.0")
    /\ "gateway4" \in DOMAIN interface
    /\ ~(route.gateway = interface.gateway4)

\* the `if` of the route list comprehension of _confd_net_file_legacy
RouteListedLegacy(interface, route) ==
    /\ ~(route.network = "0.0.0.0")
    /\ ~(route.netmask = "0.0.0.0")
    /\ "gateway4" \in DOMAIN interface
    /\ ~(route.gateway = interface.gateway4)

\* the "default via" lines _confd_net_file appends to the routes of one interface
DefaultLines(interface) ==
    (IF "gateway4" \in DOMAIN interface /\ Truthy(interface.gateway4)
        THEN << <<"  default via ", interface.gateway4>> >> ELSE <<>>)
    \o
    (IF "gateway6" \in DOMAIN interface /\ Truthy(interface.gateway6)
        THEN << <<"  default via ", interface.gateway6>> >> ELSE <<>>)

\* the "default via" lines _confd_net_file_legacy appends to the routes of one interface
DefaultLinesLegacy(interface) ==
    (IF "gateway4" \in DOMAIN interface /\ Truthy(interface.gateway4)
        THEN << <<"  \"default via ", interface.gateway4, "\"">> >> ELSE <<>>)
    \o
    (IF "gateway6" \in DOMAIN interface /\ Truthy(interface.gateway6)
        THEN << <<"  \"default via ", interface.gateway6, "\"">> >> ELSE <<>>)

\* the NETMASK_TO_PREFIXLEN lookups of _confd_net_file all find their key
LookupsSucceed(interface) ==
    /\ \A i \in 1..Len(interface.ip4s) : interface.ip4s[i].netmask \in DOMAIN NETMASK_TO_PREFIXLEN
    /\ \A i \in 1..Len(interface.routes) :
          RouteListed(interface, interface.routes[i])
             => interface.routes[i].netmask \in DOMAIN NETMASK_TO_PREFIXLEN

\* DnsLines without its `if dns:`
DnsLinesUnconditional(name, dns) ==
    << <<"dns_servers_", name, "=\"">> \o JoinPieces(dns, "\n") \o <<"\"\n">>, <<"">> >>

\* the DNS lines of one interface in _confd_net_file
DnsLines(name, dns) ==
    IF dns # <<>>
       THEN << <<"dns_servers_", name, "=\"">> \o JoinPieces(dns, "\n") \o <<"\"\n">>, <<"">> >>
       ELSE <<>>

\* the DNS lines of one interface in _confd_net_file_legacy
DnsLinesLegacy(name, dns_list) ==
    IF dns_list # <<>>
       THEN << <<"dns_servers_", name, "=(">> >>
            \o [i \in 1..Len(dns_list) |-> <<" \"", dns_list[i], "\"">>]
            \o << <<")">>, <<"">> >>
       ELSE <<>>

\* one pass of the loop body of _confd_net_file
OpenrcBlock(name, interface) ==
    LET listed == SelectSeq(interface.routes, LAMBDA r : RouteListed(interface, r))
        dns == interface.dns
    IN  (IF Truthy(interface.label) THEN << <<"# Label ", interface.label>> >> ELSE <<>>)
        \o << <<"config_", name, "=\"">> >>
        \o [i \in 1..Len(interface.ip4s) |->
               <<"  ", interface.ip4s[i].address, "/",
                 ToString(NETMASK_TO_PREFIXLEN[interface.ip4s[i].netmask])>>]
        \o [i \in 1..Len(interface.ip6s) |->
               <<"  ", interface.ip6s[i].address, "/", ToString(interface.ip6s[i].prefixlen)>>]
        \o << <<"\"">>, <<"">> >>
        \o << <<"routes_", name, "=\"">> >>
        \o [i \in 1..Len(listed) |->
               <<"  ", listed[i].network, "/", ToString(NETMASK_TO_PREFIXLEN[listed[i].netmask]),
                 " via ", listed[i].gateway>>]
        \o DefaultLines(interface)
        \o << <<"\"">>, <<"">> >>
        \o DnsLines(name, dns)

\* one pass of the loop body of _confd_net_file_legacy
LegacyBlock(name, interface) ==
    LET listed == SelectSeq(interface.routes, LAMBDA r : RouteListedLegacy(interface, r))
        dns_list == interface.dns
    IN  (IF Truthy(interface.label) THEN << <<"# Label ", interface.label>> >> ELSE <<>>)
        \o << <<"config_", name, "=(">> >>
        \o [i \in 1..Len(interface.ip4s) |->
               <<"  \"", interface.ip4s[i].address, " netmask ", interface.ip4s[i].netmask, "\"">>]
        \o [i \in 1..Len(interface.ip6s) |->
               <<"  \"", interface.ip6s[i].address, "/", ToString(interface.ip6s[i].prefixlen), "\"">>]
        \o << <<")">>, <<"">> >>
        \o << <<"routes_", name, "=(">> >>
        \o [i \in 1..Len(listed) |->
               <<"  \"", listed[i].network, " netmask ", listed[i].netmask,
                 " gw ", listed[i].gateway, "\"">>]
        \o DefaultLinesLegacy(interface)
        \o << <<")">>, <<"">> >>
        \o DnsLinesLegacy(name, dns_list)

\* _confd_net_file(interfaces): ord is the order of iteritems(), ip the probe for `ip`,
\* t the reading of the clock
confd_net_file(ifs, ord, ip, t) ==
    IF \E n \in DOMAIN ifs : ~LookupsSucceed(ifs[n])
    THEN [exc |-> "KeyError", lines |-> <<>>, ifaces |-> {}]
    ELSE [exc |-> "",
          lines |-> Preamble(ip, t) \o Flatten([i \in 1..Len(ord) |-> OpenrcBlock(ord[i], ifs[ord[i]])]),
          ifaces |-> {ord[i] : i \in 1..Len(ord)}]

\* _confd_net_file_legacy with its `return` inside the loop
confd_net_file_legacy_first(ifs, ord, ip, t) ==
    LET first == SubSeq(ord, 1, IF Len(ord) = 0 THEN 0 ELSE 1)
    IN  [exc |-> "",
         lines |-> Preamble(ip, t) \o Flatten([i \in 1..Len(first) |-> LegacyBlock(first[i], ifs[first[i]])]),
         ifaces |-> {first[i] : i \in 1..Len(first)}]

\* _confd_net_file_legacy(interfaces)
confd_net_file_legacy(ifs, ord, ip, t) ==
    [exc |-> "",
     lines |-> Preamble(ip, t) \o Flatten([i \in 1..Len(ord) |-> LegacyBlock(ord[i], ifs[ord[i]])]),
     ifaces |-> {ord[i] : i \in 1..Len(ord)}]

\* get_hostname_file(hostname), called when the clock reads t
get_hostname_file(hostname, t) ==
    JoinLines(<< <<"# Set to the hostname of this machine">>, Header(t),
                 <<"HOSTNAME=\"", hostname, "\"">> >>)

(***************************************************************************)
(* Collaborators of commands.network that configure_network calls          *)
(***************************************************************************)
\* commands.network.get_resolv_conf(interfaces): (filepath, data), data empty without DNS
get_resolv_conf(ifs, ord) ==
    LET servers == Flatten([i \in 1..Len(ord) |-> ifs[ord[i]].dns])
    IN  [filepath |-> "/etc/resolv.conf",
         data |-> IF servers = <<>> THEN ""
                  ELSE Concat(<<"# Automatically generated, do not edit\n">>
                              \o Flatten([i \in 1..Len(servers) |-> <<"nameserver ", servers[i], "\n">>]))]

\* commands.network.get_etc_hosts(interfaces, hostname): (filepath, data)
get_etc_hosts(ifs, hostname) ==
    [filepath |-> "/etc/hosts", data |-> Concat(<<"127.0.0.1\tlocalhost\n# hosts of ", hostname, "\n">>)]

(***************************************************************************)
(* Inputs                                                                  *)
(***************************************************************************)
HostnameArg == "myhost"

\* error texts commands.network.sethostname may raise with
HostnameErrors == {"Operation not permitted", "hostname: name too long"}

\* status words os.waitpid reports for a child (exit codes 0, 1, 2)
WaitStatuses == {0, 256, 512}

G1 == "192.168.0.1"
G2 == "192.168.0.254"
G6 == "fe80::1"

Base == [label |-> "", ip4s |-> <<>>, ip6s |-> <<>>, routes |-> <<>>, dns |-> <<>>]

ValidIp4 == [address |-> "192.168.0.100", netmask |-> "255.255.255.0"]
ValidIp4b == [address |-> "10.1.2.3", netmask |-> "255.255.0.0"]
BadIp4 == [address |-> "192.168.0.101", netmask |-> "255.255.255.3"]
Ip6 == [address |-> "fe80::100", prefixlen |-> 64]

DefaultRoute == [network |-> "0.0.0.0", netmask |-> "0.0.0.0", gateway |-> G1]
NetRouteG1 == [network |-> "10.0.0.0", netmask |-> "255.255.255.0", gateway |-> G1]
NetRouteG2 == [network |-> "10.0.0.0", netmask |-> "255.255.255.0", gateway |-> G2]
HalfZeroRoute == [network |-> "0.0.0.0", netmask |-> "255.255.255.0", gateway |-> G2]
BadRoute == [network |-> "10.0.0.0", netmask |-> "255.255.255.3", gateway |-> G2]

RouteLists ==
    {<<>>, <<DefaultRoute>>, <<NetRouteG1>>, <<HalfZeroRoute>>, <<BadRoute>>,
     <<DefaultRoute, NetRouteG2>>}

\* the optional gateway keys an interface may carry
GatewayVariants ==
    { <<>>,
      [gateway4 |-> G1, gateway6 |-> None],
      [gateway4 |-> None, gateway6 |-> G6] }

RouteDescriptors == {g @@ [Base EXCEPT !.routes = rl] : rl \in RouteLists, g \in GatewayVariants}

AddrDescriptors ==
    { [Base EXCEPT !.dns = <<"8.8.8.8", "8.8.4.4">>],
      [Base EXCEPT !.dns = <<"8.8.4.4", "8.8.8.8">>],
      [Base EXCEPT !.ip4s = <<ValidIp4>>],
      [Base EXCEPT !.ip4s = <<BadIp4>>],
      [Base EXCEPT !.label = "public", !.ip4s = <<ValidIp4, ValidIp4b>>, !.ip6s = <<Ip6>>] }

Descriptors == RouteDescriptors \cup AddrDescriptors

\* the descriptors configure_network is run on
ApplyDescriptors ==
    { [gateway4 |-> G1, gateway6 |-> None] @@
         [label |-> "public", ip4s |-> <<ValidIp4>>, ip6s |-> <<>>,
          routes |-> <<DefaultRoute>>,
          dns |-> <<"8.8.8.8">>],
      [Base EXCEPT !.ip4s = <<BadIp4>>],
      [gateway4 |-> G1] @@ [Base EXCEPT !.routes = <<BadRoute>>] }

Mappings(D) == UNION {[S -> D] : S \in SUBSET Names}

(***************************************************************************)
(* The render dialects as called through get_interface_files               *)
(***************************************************************************)
Versions == {"openrc", "legacy"}

NoResult == [kind |-> "none", code |-> -1, msg |-> ""]
Returned(code, msg) == [kind |-> "return", code |-> code, msg |-> msg]
Raised(exc) == [kind |-> "raise", code |-> -1, msg |-> exc]

NotRendered == [exc |-> "", lines |-> <<>>, ifaces |-> {}]

InitRender ==
    /\ interfaces \in Mappings(Descriptors)
    /\ order \in Perms(DOMAIN interfaces)
    /\ ipCmd \in BOOLEAN
    /\ rcExists = FALSE
    /\ fs = [n \in Names |-> "absent"]
    /\ pc = "call"
    /\ version = ""
    /\ rendered = NotRendered
    /\ update_files = <<>>
    /\ written = <<>>
    /\ hostnameSet = FALSE
    /\ remaining = {}
    /\ ifname = ""
    /\ status = <<>>
    /\ result = NoResult
    /\ trace = <<>>

\* get_interface_files(interfaces, version)
get_interface_files ==
    /\ pc = "call"
    /\ \E v \in Versions, i \in 1..Len(Clock) :
          /\ version' = v
          /\ rendered' = IF v = "openrc"
                            THEN confd_net_file(interfaces, order, ipCmd, Clock[i])
                            ELSE confd_net_file_legacy(interfaces, order, ipCmd, Clock[i])
    /\ pc' = "returned"
    /\ UNCHANGED <<interfaces, order, rcExists, ipCmd, fs, update_files, written,
                   hostnameSet, remaining, ifname, status, result, trace>>

NextRender == get_interface_files

SpecRender == InitRender /\ [][NextRender]_vars

(***************************************************************************)
(* configure_network(hostname, interfaces)                                 *)
(***************************************************************************)
\* a side effect: the call, the interface it is for, the status it ended with
\* (1 for a raised exception) and the text of the exception
Event(op, name, st) == [op |-> op, ifname |-> name, status |-> st, error |-> ""]
HostnameFailed(e) == [op |-> "sethostname", ifname |-> "", status |-> 1, error |-> e]

Init ==
    /\ interfaces \in Mappings(ApplyDescriptors)
    /\ order \in Perms(DOMAIN interfaces)
    /\ rcExists \in BOOLEAN
    /\ ipCmd \in BOOLEAN
    /\ fs \in [Names -> {"absent", "file"}]
    /\ pc = "start"
    /\ version = ""
    /\ rendered = NotRendered
    /\ update_files = <<>>
    /\ written = <<>>
    /\ hostnameSet = FALSE
    /\ remaining = {}
    /\ ifname = ""
    /\ status = <<>>
    /\ result = NoResult
    /\ trace = <<>>

\* the render with the probe for /sbin/rc ignored
RenderSelectedLegacy(t) == confd_net_file_legacy(interfaces, order, ipCmd, t)

\* the dialect configure_network selects, and its render
RenderSelected(t) ==
    IF rcExists THEN confd_net_file(interfaces, order, ipCmd, t)
                ELSE confd_net_file_legacy(interfaces, order, ipCmd, t)

\* the dict update_files after the four files are generated
GeneratedFiles(r, t) ==
    LET resolv == get_resolv_conf(interfaces, order)
        hosts == get_etc_hosts(interfaces, HostnameArg)
    IN  (hosts.filepath :> hosts.data)
        @@ (HOSTNAME_FILE :> get_hostname_file(HostnameArg, t))
        @@ (IF resolv.data # "" THEN (resolv.filepath :> resolv.data) ELSE <<>>)
        @@ (NETWORK_FILE :> JoinLines(r.lines))

\* generate the content of the files; a failed lookup leaves the function by KeyError
GenerateFiles ==
    /\ pc = "start"
    /\ version' = (IF rcExists THEN "openrc" ELSE "legacy")
    /\ \E i, j \in 1..Len(Clock) :
          \* the clock as _confd_net_file*, then get_hostname_file, read it
          /\ i <= j
          /\ rendered' = RenderSelected(Clock[i])
          /\ IF rendered'.exc # ""
                THEN /\ result' = Raised(rendered'.exc)
                     /\ pc' = "done"
                     /\ UNCHANGED update_files
                ELSE /\ update_files' = GeneratedFiles(rendered', Clock[j])
                     /\ pc' = "write"
                     /\ UNCHANGED result
    /\ UNCHANGED <<interfaces, order, rcExists, ipCmd, fs, written, hostnameSet,
                   remaining, ifname, status, trace>>

\* commands.network.update_files(update_files)
WriteFiles ==
    /\ pc = "write"
    /\ written' = update_files
    /\ trace' = Append(trace, Event("update_files", "", 0))
    /\ pc' = "sethostname"
    /\ UNCHANGED <<interfaces, order, rcExists, ipCmd, fs, version, rendered, update_files,
                   hostnameSet, remaining, ifname, status, result>>

\* commands.network.sethostname(hostname) returns
SetHostnameOk ==
    /\ pc = "sethostname"
    /\ hostnameSet' = TRUE
    /\ trace' = Append(trace, Event("sethostname", "", 0))
    /\ remaining' = rendered.ifaces
    /\ pc' = "loop"
    /\ UNCHANGED <<interfaces, order, rcExists, ipCmd, fs, version, rendered, update_files,
                   written, ifname, status, result>>

\* SetHostnameFail with the exception swallowed
SetHostnameFailSwallowed ==
    /\ pc = "sethostname"
    /\ \E e \in HostnameErrors : trace' = Append(trace, HostnameFailed(e))
    /\ remaining' = rendered.ifaces
    /\ pc' = "loop"
    /\ UNCHANGED <<interfaces, order, rcExists, ipCmd, fs, version, rendered, update_files,
                   written, hostnameSet, ifname, status, result>>

\* commands.network.sethostname(hostname) raises
SetHostnameFail ==
    /\ pc = "sethostname"
    /\ \E e \in HostnameErrors :
          /\ trace' = Append(trace, HostnameFailed(e))
          /\ result' = Returned(500, "Couldn't set hostname: " \o e)
    /\ pc' = "done"
    /\ UNCHANGED <<interfaces, order, rcExists, ipCmd, fs, version, rendered, update_files,
                   written, hostnameSet, remaining, ifname, status>>

\* `for ifname in ifaces`: the next member of the set, in no particular order
NextInterface ==
    /\ pc = "loop"
    /\ remaining # {}
    /\ \E n \in remaining :
          /\ ifname' = n
          /\ remaining' = remaining \ {n}
    /\ pc' = "flush"
    /\ UNCHANGED <<interfaces, order, rcExists, ipCmd, fs, version, rendered, update_files,
                   written, hostnameSet, status, result, trace>>

\* the loop is exhausted
ReturnOk ==
    /\ pc = "loop"
    /\ remaining = {}
    /\ result' = Returned(0, "")
    /\ pc' = "done"
    /\ UNCHANGED <<interfaces, order, rcExists, ipCmd, fs, version, rendered, update_files,
                   written, hostnameSet, remaining, ifname, status, trace>>

\* what `return (500, "Couldn't flush network %s: %d" % (ifname, status))` does:
\* `status` is configure_network's own local, assigned only after a restart
FlushFailure(name, st) ==
    IF st = <<>> THEN Raised("UnboundLocalError")
    ELSE Returned(500, "Couldn't flush network " \o name \o ": " \o ToString(st[1]))

\* Flush with the result of _clean_assigned_ip ignored
FlushIgnoringStatus ==
    /\ pc = "flush"
    /\ ipCmd
    /\ \E st \in WaitStatuses : trace' = Append(trace, Event("flush", ifname, st))
    /\ pc' = "symlink"
    /\ UNCHANGED <<interfaces, order, rcExists, ipCmd, fs, version, rendered, update_files,
                   written, hostnameSet, remaining, ifname, status, result>>

\* _clean_assigned_ip(ifname), when `ip` is a system command
Flush ==
    /\ pc = "flush"
    /\ ipCmd
    /\ \E st \in WaitStatuses :
          /\ trace' = Append(trace, Event("flush", ifname, st))
          /\ IF st # 0
                THEN /\ result' = FlushFailure(ifname, status)
                     /\ pc' = "done"
                ELSE /\ pc' = "symlink"
                     /\ UNCHANGED result
    /\ UNCHANGED <<interfaces, order, rcExists, ipCmd, fs, version, rendered, update_files,
                   written, hostnameSet, remaining, ifname, status>>

\* FlushSkipped with the rest of the loop body under the `else`'s `continue`
FlushSkippedNoRestart ==
    /\ pc = "flush"
    /\ ~ipCmd
    /\ pc' = "loop"
    /\ UNCHANGED <<interfaces, order, rcExists, ipCmd, fs, version, rendered, update_files,
                   written, hostnameSet, remaining, ifname, status, result, trace>>

\* no `ip` command: only a warning is logged
FlushSkipped ==
    /\ pc = "flush"
    /\ ~ipCmd
    /\ pc' = "symlink"
    /\ UNCHANGED <<interfaces, order, rcExists, ipCmd, fs, version, rendered, update_files,
                   written, hostnameSet, remaining, ifname, status, result, trace>>

\* the existence test left out
ScriptNeverExists(name) == FALSE

\* os.path.exists(scriptpath)
ScriptExists(name) == fs[name] # "absent"

\* create /etc/init.d/net.<ifname> -> net.lo unless the path exists
EnsureSymlink ==
    /\ pc = "symlink"
    /\ IF ~ScriptExists(ifname)
          THEN /\ fs' = [fs EXCEPT ![ifname] = "symlink"]
               /\ trace' = Append(trace, Event("symlink", ifname, 0))
          ELSE UNCHANGED <<fs, trace>>
    /\ pc' = "restart"
    /\ UNCHANGED <<interfaces, order, rcExists, ipCmd, version, rendered, update_files,
                   written, hostnameSet, remaining, ifname, status, result>>

\* AfterRestart with the status never looked at
AfterRestartIgnored(name, st) == [pc |-> "loop", result |-> NoResult]

\* where the loop goes after a restart that exited with st
AfterRestart(name, st) ==
    IF st # 0
       THEN [pc |-> "done",
             result |-> Returned(500, "Couldn't restart network " \o name \o ": " \o ToString(st))]
       ELSE [pc |-> "loop", result |-> NoResult]

\* run `/etc/init.d/net.<ifname> restart` and wait for it
Restart ==
    /\ pc = "restart"
    /\ \E st \in WaitStatuses :
          /\ status' = <<st>>
          /\ trace' = Append(trace, Event("restart", ifname, st))
          /\ pc' = AfterRestart(ifname, st).pc
          /\ result' = AfterRestart(ifname, st).result
    /\ UNCHANGED <<interfaces, order, rcExists, ipCmd, fs, version, rendered, update_files,
                   written, hostnameSet, remaining, ifname>>

Next ==
    \/ GenerateFiles
    \/ WriteFiles
    \/ SetHostnameOk
    \/ SetHostnameFail
    \/ NextInterface
    \/ ReturnOk
    \/ Flush
    \/ FlushSkipped
    \/ EnsureSymlink
    \/ Restart

Spec == Init /\ [][Next]_vars

(***************************************************************************)
(* Reading the rendered lines                                              *)
(***************************************************************************)
RLines == rendered.lines

\* the lines that open the block `kind` ("config_", "routes_", "dns_servers_") of interface n
Opens(kind, n) ==
    {i \in 1..Len(RLines) : Len(RLines[i]) >= 3 /\ RLines[i][1] = kind /\ RLines[i][2] = n}

\* the line that closes a block in the dialect rendered
Closer == IF version = "openrc" THEN <<"\"">> ELSE <<")">>

\* the lines between the opening line i and the next closing line
BlockBody(i) ==
    LET ends == {j \in (i+1)..Len(RLines) : RLines[j] = Closer}
        e == IF ends = {} THEN Len(RLines) + 1
             ELSE CHOOSE j \in ends : \A k \in ends : j <= k
    IN  SubSeq(RLines, i + 1, e - 1)

\* the explicit line of route r in the dialect rendered
ExplicitRouteLine(r) ==
    IF version = "openrc"
       THEN <<"  ", r.network, "/",
              IF r.netmask \in DOMAIN NETMASK_TO_PREFIXLEN
                 THEN ToString(NETMASK_TO_PREFIXLEN[r.netmask]) ELSE "?",
              " via ", r.gateway>>
       ELSE <<"  \"", r.network, " netmask ", r.netmask, " gw ", r.gateway, "\"">>

\* route r of interface n has an explicit line in the routes block of n
HasRouteLine(n, r) ==
    \E i \in Opens("routes_", n) :
       \E k \in 1..Len(BlockBody(i)) : BlockBody(i)[k] = ExplicitRouteLine(r)

\* the default route that repeats the interface's gateway4
DuplicatesGateway4(interface, r) ==
    /\ r.network = "0.0.0.0"
    /\ r.netmask = "0.0.0.0"
    /\ "gateway4" \in DOMAIN interface
    /\ r.gateway = interface.gateway4

RenderReturned == pc = "returned" /\ rendered.exc = ""

(***************************************************************************)
(* C3: in both dialects a route is left out of the explicit route lines    *)
(* if and only if its network and netmask are both 0.0.0.0, the interface  *)
(* declares gateway4 and the route's gateway equals it; every other route  *)
(* has an explicit line.  The code does not do this.                       *)
(***************************************************************************)
C3_DefaultRouteDedup ==
    RenderReturned =>
       \A n \in DOMAIN interfaces :
          \A i \in 1..Len(interfaces[n].routes) :
             LET r == interfaces[n].routes[i]
             IN  HasRouteLine(n, r) <=> ~DuplicatesGateway4(interfaces[n], r)

(***************************************************************************)
(* C8: in both dialects the rendered text holds a dns_servers_<name> block *)
(* exactly when the interface's dns sequence is non-empty, and the block   *)
(* lists the entries in the order of the sequence.                         *)
(***************************************************************************)
\* the DNS entries the block opened by line i lists, in order
DnsListed(i) ==
    IF version = "openrc"
       THEN SelectSeq(SubSeq(RLines[i], 4, Len(RLines[i]) - 1), LAMBDA t : t # "\n")
       ELSE [k \in 1..Len(BlockBody(i)) |-> BlockBody(i)[k][2]]

C8_DnsBlockIffDns ==
    RenderReturned =>
       \A n \in DOMAIN interfaces :
          /\ (Opens("dns_servers_", n) # {}) <=> (interfaces[n].dns # <<>>)
          /\ \A i \in Opens("dns_servers_", n) : DnsListed(i) = interfaces[n].dns
          /\ Cardinality(Opens("dns_servers_", n)) <= 1

C8_Witness ==
    /\ RenderReturned
    /\ \E n, m \in DOMAIN interfaces :
          /\ Len(interfaces[n].dns) = 2
          /\ interfaces[m].dns = <<>>
          /\ Opens("dns_servers_", n) # {}
          /\ Opens("dns_servers_", m) = {}

(***************************************************************************)
(* C9: for a mapping whose netmasks are all valid, each dialect returns    *)
(* the key set of the mapping as its interface-name set, and the text      *)
(* holds exactly one config_<name> and one routes_<name> block per key,    *)
(* the config block first.                                                 *)
(***************************************************************************)
AllNetmasksValid ==
    \A n \in DOMAIN interfaces :
       /\ \A i \in 1..Len(interfaces[n].ip4s) :
             interfaces[n].ip4s[i].netmask \in DOMAIN NETMASK_TO_PREFIXLEN
       /\ \A i \in 1..Len(interfaces[n].routes) :
             interfaces[n].routes[i].netmask \in DOMAIN NETMASK_TO_PREFIXLEN

C9_OneBlockPerInterface ==
    (pc = "returned" /\ AllNetmasksValid) =>
       /\ rendered.exc = ""
       /\ rendered.ifaces = DOMAIN interfaces
       /\ \A n \in DOMAIN interfaces :
             /\ Cardinality(Opens("config_", n)) = 1
             /\ Cardinality(Opens("routes_", n)) = 1
             /\ \A i \in Opens("config_", n) : \A j \in Opens("routes_", n) :
                   i + Len(BlockBody(i)) < j

C9_Witness ==
    /\ RenderReturned
    /\ AllNetmasksValid
    /\ Cardinality(DOMAIN interfaces) = 2
    /\ \E n, m \in DOMAIN interfaces :
          /\ interfaces[n].ip4s = <<>> /\ interfaces[n].ip6s = <<>> /\ interfaces[n].routes = <<>>
          /\ interfaces[m].ip4s # <<>>
          /\ Opens("config_", n) # {} /\ Opens("routes_", n) # {}
          /\ Opens("config_", m) # {} /\ Opens("routes_", m) # {}

(***************************************************************************)
(* Reading the side effects of a run of configure_network                  *)
(***************************************************************************)
\* the positions of the calls `op` made for interface n
Calls(op, n) == {i \in 1..Len(trace) : trace[i].op = op /\ trace[i].ifname = n}

\* a flush or a restart has exited non-zero
SubprocessFailed ==
    \E i \in 1..Len(trace) : trace[i].op \in {"flush", "restart"} /\ trace[i].status # 0

\* an interface was flushed, symlinked or restarted
InterfaceTouched == \E i \in 1..Len(trace) : trace[i].op \in {"flush", "symlink", "restart"}

\* the loop is done with interface n
LoopPassed(n) ==
    /\ hostnameSet
    /\ n \in rendered.ifaces \ remaining
    /\ (n # ifname \/ pc \in {"loop", "done"})

(***************************************************************************)
(* C1: with `ip` available, a flush of interface X that exits with a       *)
(* non-zero status S ends the operation with the result                    *)
(* (500, "Couldn't flush network X: S").  The code does not do this.       *)
(***************************************************************************)
C1_FlushFailureReported ==
    \A i \in 1..Len(trace) :
       (trace[i].op = "flush" /\ trace[i].status # 0) =>
          /\ pc = "done"
          /\ result = Returned(500, "Couldn't flush network " \o trace[i].ifname
                                      \o ": " \o ToString(trace[i].status))

(***************************************************************************)
(* C2: once a flush or a restart has exited non-zero, no further flush,    *)
(* symlink creation or restart happens, and the files written and the      *)
(* hostname set stay as they are.                                          *)
(***************************************************************************)
C2_ShortCircuit ==
    /\ [][SubprocessFailed =>
            /\ trace' = trace
            /\ fs' = fs
            /\ written' = written
            /\ hostnameSet' = hostnameSet]_vars
    /\ [](SubprocessFailed => (hostnameSet /\ written = update_files /\ written # <<>>))

C2_Witness ==
    /\ pc = "done"
    /\ remaining # {}
    /\ \E i \in 1..Len(trace) : trace[i].op = "flush" /\ trace[i].status # 0
    /\ hostnameSet
    /\ NETWORK_FILE \in DOMAIN written

(***************************************************************************)
(* C4: a failing sethostname ends the operation with (500, message), the   *)
(* message carrying the error text; no interface is flushed, symlinked or  *)
(* restarted and the files handed to update_files stay written.            *)
(***************************************************************************)
C4_HostnameFailureAborts ==
    \A i \in 1..Len(trace) :
       (trace[i].op = "sethostname" /\ trace[i].status # 0) =>
          /\ pc = "done"
          /\ result = Returned(500, "Couldn't set hostname: " \o trace[i].error)
          /\ ~InterfaceTouched
          /\ \A n \in Names : fs[n] # "symlink"
          /\ written = update_files
          /\ {NETWORK_FILE, HOSTNAME_FILE} \subseteq DOMAIN written

C4_Witness ==
    /\ pc = "done"
    /\ \E i \in 1..Len(trace) : trace[i].op = "sethostname" /\ trace[i].status # 0
    /\ rendered.ifaces # {}
    /\ NETWORK_FILE \in DOMAIN written

(***************************************************************************)
(* C5: an IPv4 address or a rendered route whose netmask is not in the     *)
(* netmask table makes the operation fail while rendering, before any file *)
(* is written, the hostname set or an interface touched.                   *)
(***************************************************************************)
\* some IPv4 address, or some route the dialect renders, has an unmapped netmask
UnmappedNetmask(openrc) ==
    \E n \in DOMAIN interfaces :
       \/ \E i \in 1..Len(interfaces[n].ip4s) :
             interfaces[n].ip4s[i].netmask \notin DOMAIN NETMASK_TO_PREFIXLEN
       \/ \E i \in 1..Len(interfaces[n].routes) :
             /\ IF openrc THEN RouteListed(interfaces[n], interfaces[n].routes[i])
                          ELSE RouteListedLegacy(interfaces[n], interfaces[n].routes[i])
             /\ interfaces[n].routes[i].netmask \notin DOMAIN NETMASK_TO_PREFIXLEN

FailedInRender ==
    /\ pc = "done"
    /\ result.kind = "raise"
    /\ written = <<>>
    /\ ~hostnameSet
    /\ trace = <<>>

\* C5 as claimed: in either variant an unmapped netmask fails the operation in the
\* render, before any side effect
C5_BadNetmaskFailsRender ==
    (pc # "start" /\ UnmappedNetmask(rcExists))
       => FailedInRender

\* C5 as amended: in the OpenRC variant an unmapped netmask fails the operation in
\* the render, before any side effect; the legacy render never fails on a netmask,
\* and the files are then written
C5_OpenrcBadNetmaskFailsRender ==
    /\ (pc # "start" /\ rcExists /\ UnmappedNetmask(TRUE)) => FailedInRender
    /\ (pc # "start" /\ ~rcExists) =>
          /\ rendered.exc = ""
          /\ pc # "write" => (written = update_files /\ NETWORK_FILE \in DOMAIN written)

C5_Witness ==
    /\ rcExists
    /\ UnmappedNetmask(TRUE)
    /\ \A n \in DOMAIN interfaces : \A i \in 1..Len(interfaces[n].ip4s) :
          interfaces[n].ip4s[i].netmask \in DOMAIN NETMASK_TO_PREFIXLEN
    /\ FailedInRender
    /\ result = Raised("KeyError")

(***************************************************************************)
(* C6: the result is (0, "") exactly when the hostname was set and, for    *)
(* every interface of the rendered set, no flush exited non-zero and the   *)
(* restart exited 0; with no interface it is (0, "") once the files are    *)
(* written and the hostname set; a restart of X exiting with S # 0 gives   *)
(* (500, "Couldn't restart network X: S").                                 *)
(***************************************************************************)
AllInterfacesUp ==
    /\ hostnameSet
    /\ \A n \in rendered.ifaces :
          /\ \A i \in Calls("flush", n) : trace[i].status = 0
          /\ \E i \in Calls("restart", n) : trace[i].status = 0

C6_SuccessIffAllOk ==
    /\ pc = "done" => (result = Returned(0, "") <=> AllInterfacesUp)
    /\ pc # "done" => result = NoResult
    /\ (pc = "done" /\ DOMAIN interfaces = {} /\ hostnameSet) =>
          (result = Returned(0, "") /\ written = update_files /\ NETWORK_FILE \in DOMAIN written)
    /\ \A i \in 1..Len(trace) :
          (trace[i].op = "restart" /\ trace[i].status # 0) =>
             result = Returned(500, "Couldn't restart network " \o trace[i].ifname
                                       \o ": " \o ToString(trace[i].status))

C6_Witness ==
    /\ pc = "done"
    /\ result = Returned(0, "")
    /\ ipCmd
    /\ Cardinality(rendered.ifaces) = 2
    /\ \A n \in rendered.ifaces : Calls("flush", n) # {} /\ Calls("restart", n) # {}

(***************************************************************************)
(* C7: the symlink /etc/init.d/net.<name> is created only where nothing    *)
(* exists, an existing path is never replaced or modified, and whenever a  *)
(* restart is invoked its script path exists.                              *)
(***************************************************************************)
C7_SymlinkOnlyIfAbsent ==
    /\ [][\A n \in Names :
            fs'[n] # fs[n] => (fs[n] = "absent" /\ fs'[n] = "symlink" /\ n = ifname)]_vars
    /\ [](\A i \in 1..Len(trace) :
            /\ trace[i].op = "restart" => fs[trace[i].ifname] # "absent"
            /\ trace[i].op = "symlink" => fs[trace[i].ifname] = "symlink")

C7_Witness ==
    \E n, m \in Names :
       /\ fs[n] = "file" /\ Calls("restart", n) # {} /\ Calls("symlink", n) = {}
       /\ fs[m] = "symlink" /\ Calls("restart", m) # {} /\ Calls("symlink", m) # {}

(***************************************************************************)
(* C10: update_files precedes sethostname, which precedes every flush and  *)
(* restart; an interface is flushed exactly when `ip` is available, before *)
(* its restart, which is invoked only after the flush succeeded or was     *)
(* skipped; without `ip` the restart is still invoked; no interface is     *)
(* flushed or restarted twice.                                             *)
(***************************************************************************)
C10_SideEffectOrder ==
    /\ \A i \in 1..Len(trace) :
          /\ trace[i].op = "sethostname" =>
                \E j \in 1..(i-1) : trace[j].op = "update_files"
          /\ trace[i].op \in {"flush", "symlink", "restart"} =>
                \E j \in 1..(i-1) : trace[j].op = "sethostname" /\ trace[j].status = 0
          /\ trace[i].op = "flush" => ipCmd
          /\ trace[i].op = "restart" =>
                /\ ipCmd => \E j \in 1..(i-1) :
                               trace[j] = Event("flush", trace[i].ifname, 0)
                /\ ~ipCmd => Calls("flush", trace[i].ifname) = {}
    /\ \A n \in Names :
          /\ Cardinality(Calls("flush", n)) <= 1
          /\ Cardinality(Calls("restart", n)) <= 1
          /\ Cardinality(Calls("update_files", "")) <= 1
          /\ LoopPassed(n) =>
                /\ ipCmd <=> Calls("flush", n) # {}
                /\ ~ipCmd => Calls("restart", n) # {}
                /\ Event("flush", n, 0) \in {trace[i] : i \in 1..Len(trace)}
                      => Calls("restart", n) # {}

C10_Witness ==
    /\ pc = "done"
    /\ ~ipCmd
    /\ Cardinality(rendered.ifaces) = 2
    /\ \A n \in rendered.ifaces : Calls("restart", n) # {} /\ Calls("flush", n) = {}
    /\ trace[1].op = "update_files"
    /\ trace[2].op = "sethostname"

====
